---------------------------- MODULE Spec2Model ----------------------------
(***************************************************************************)
(* Rules engine of the two-player battleship game server:                  *)
(*   - validateShipPlacement   (board validator,   validations.ts)         *)
(*   - isGameOverForPlayer     (outcome evaluator, validations.ts)         *)
(*   - MatchInstance           (match state,       models/match.instance)  *)
(* The three components share no state, so each has its own specification  *)
(* (SpecBoard, SpecOutcome, SpecMatch) over its own variables.             *)
(***************************************************************************)
EXTENDS Integers, Sequences, FiniteSets, TLC

VARIABLES
    \* ---- board validator: one call of validateShipPlacement ----
    placementData,   \* the payload handed to validateShipPlacement
    pc,              \* "submitted" before the call, "done" after it
    outcome,         \* how the call ended: "ok" or the kind of error thrown
    violations,      \* the details of the Joi ValidationError (abortEarly: false)
    grid,            \* the occupancy grid as it was when the call ended
    overlapAt,       \* <<j, i>> printed by the overlap error, else <<>>
    returned,        \* the value returned on success, else NoValue
    \* ---- outcome evaluator ----
    shipPositions,   \* player.getShipPositionData(): absent, or the ships' cells
    queried,         \* TRUE when lastGameOver is the answer for shipPositions
    lastGameOver,    \* last value returned by isGameOverForPlayer
    \* ---- match instance ----
    playerA, playerB, ready,
    lastCall,        \* name of the last MatchInstance method called
    lastArg,         \* its argument (a player uuid) or Undefined
    lastJoinable,    \* what isJoinable last returned
    lastOpponent,    \* what getPlayerOpponentUUID last returned, or Threw
    lastPlayers      \* what getPlayers last returned

boardVars   == <<placementData, pc, outcome, violations, grid, overlapAt, returned>>
outcomeVars == <<shipPositions, queried, lastGameOver>>
matchVars   == <<playerA, playerB, ready, lastCall, lastArg,
                 lastJoinable, lastOpponent, lastPlayers>>
vars        == <<boardVars, outcomeVars, matchVars>>

-----------------------------------------------------------------------------
(* Values shared by the components *)

\* JavaScript's undefined (an absent playerB, an absent ship record)
Undefined == "undefined"

\* GAME_GRID_SIZE of ./config: the side N of the board
GAME_GRID_SIZE == 4

\* enum Orientation
Vertical   == "vertical"
Horizontal == "horizontal"

\* enum ShipType
Battleship == "Battleship"
Destroyer  == "Destroyer"
Submarine  == "Submarine"
ShipType   == {Battleship, Destroyer, Submarine}

\* Object.keys / Object.values order of an object with the three ship keys,
\* taken in the order of the enum
ShipOrder == <<Battleship, Destroyer, Submarine>>

\* ShipSize: the CellArea of each ship, a string "<w>x<h>" held as characters
ShipSize ==
    [s \in ShipType |->
        CASE s = Battleship -> <<"4", "x", "1">>
          [] s = Destroyer  -> <<"3", "x", "1">>
          [] s = Submarine  -> <<"2", "x", "1">>]

\* NaN, and an array hole / undefined element, as grid values
NaN  == -1
Hole == -2

\* parseInt of a one-digit string; NaN when it is not a digit
ParseInt(c) ==
    CASE c = "0" -> 0 [] c = "1" -> 1 [] c = "2" -> 2 [] c = "3" -> 3
      [] c = "4" -> 4 [] c = "5" -> 5 [] c = "6" -> 6 [] c = "7" -> 7
      [] c = "8" -> 8 [] c = "9" -> 9 [] OTHER -> NaN

\* v.split('x')[0] for the one-digit widths of CellArea
SplitX0(area) == area[1]

\* getCellAreaWidthAndHeight(area).x
getCellAreaWidthAndHeight(area) == ParseInt(SplitX0(area))

RECURSIVE SumWidths(_)
SumWidths(S) ==
    IF S = {} THEN 0
    ELSE LET s == CHOOSE x \in S : TRUE
         IN  ParseInt(SplitX0(ShipSize[s])) + SumWidths(S \ {s})

\* EXPECTED_OCCUPIED_SQUARES: the reduce over Object.values(ShipSize)
EXPECTED_OCCUPIED_SQUARES == SumWidths(ShipType)

-----------------------------------------------------------------------------
(* Board validator: the Joi schema pass *)

\* One detail of a Joi ValidationError: the key, the field under it, the error type
Violation(key, field, type) == [key |-> key, field |-> field, type |-> type]

OriginField(k) == IF k = 1 THEN "origin[0]" ELSE IF k = 2 THEN "origin[1]" ELSE "origin[2]"

\* Joi.number().min(0).max(GAME_GRID_SIZE - 1) on one item of origin
OriginItemErrors(key, origin, k) ==
    (IF origin[k] < 0
        THEN {Violation(key, OriginField(k), "number.min")} ELSE {})
    \cup
    (IF origin[k] > GAME_GRID_SIZE - 1
        THEN {Violation(key, OriginField(k), "number.max")} ELSE {})

\* Joi.string().allow(Vertical, Horizontal).required(): allow() adds values to
\* what string() already accepts, it does not restrict to them; string()
\* accepts every string but the empty one.
OrientationErrors(key, orientation) ==
    IF orientation = ""
        THEN {Violation(key, "orientation", "string.empty")} ELSE {}


\* ShipSchema applied to the value under `key`; every violation is collected
ShipSchema(key, ship) ==
    (IF Len(ship.origin) < 2
        THEN {Violation(key, "origin", "array.min")} ELSE {})
    \cup
    (IF Len(ship.origin) > 2
        THEN {Violation(key, "origin", "array.max")} ELSE {})
    \cup
    UNION {OriginItemErrors(key, ship.origin, k) : k \in 1..Len(ship.origin)}
    \cup
    OrientationErrors(key, ship.orientation)

\* ShipsLockedSchema.validate(placementData, {abortEarly: false,
\* allowUnknown: false}): the set of all violations, empty when valid
ShipsLockedSchema(data) ==
    UNION {ShipSchema(key, data[key]) : key \in ShipType \cap DOMAIN data}
    \cup
    {Violation(key, "", "any.required") : key \in ShipType \ DOMAIN data}
    \cup
    {Violation(key, "", "object.unknown") : key \in DOMAIN data \ ShipType}

-----------------------------------------------------------------------------
(* Board validator: the occupancy grid.  A grid is a sequence of rows, a   *)
(* row a sequence of values; JavaScript index k is TLA+ index k + 1.       *)

\* generateEmptyGridArray
generateEmptyGridArray ==
    [i \in 1..GAME_GRID_SIZE |-> [j \in 1..GAME_GRID_SIZE |-> 0]]

\* x + 1 on a grid value: undefined + 1 and NaN + 1 are NaN
PlusOne(v) == IF v = NaN \/ v = Hole THEN NaN ELSE v + 1

\* row[col] += 1 on a JavaScript array: an index at or past the end extends
\* the array, leaving holes before it, and stores undefined + 1 = NaN
IncrementAt(row, col) ==
    IF col + 1 <= Len(row)
        THEN [row EXCEPT ![col + 1] = PlusOne(row[col + 1])]
        ELSE [j \in 1..(col + 1) |->
                IF j <= Len(row) THEN row[j]
                ELSE IF j = col + 1 THEN NaN ELSE Hole]

\* The result of populateGridWithShipData: the grid, and whether it threw
\* ("" or the kind of error)
PopulateResult(g, threw) == [grid |-> g, threw |-> threw]

\* grid[row][col] += 1; grid[row] is undefined past the last row and reading
\* a property of undefined throws a TypeError
IncrementCell(g, row, col) ==
    IF row + 1 > Len(g)
        THEN PopulateResult(g, "TypeError")
        ELSE PopulateResult([g EXCEPT ![row + 1] = IncrementAt(g[row + 1], col)], "")

\* The cell the loop of populateGridWithShipData touches at step i: <<row, col>>
CellAtStep(ship, i) ==
    IF ship.orientation = Horizontal
        THEN <<ship.origin[2], ship.origin[1] + i>>
        ELSE <<ship.origin[2] + i, ship.origin[1]>>

RECURSIVE PopulateFrom(_, _, _, _)
PopulateFrom(size, ship, g, i) ==
    IF i >= size THEN PopulateResult(g, "")
    ELSE LET cell == CellAtStep(ship, i)
             r    == IncrementCell(g, cell[1], cell[2])
         IN  IF r.threw # "" THEN r
             ELSE PopulateFrom(size, ship, r.grid, i + 1)

\* populateGridWithShipData(size, ship, grid)
populateGridWithShipData(size, ship, g) ==
    IF size = NaN THEN PopulateResult(g, "SizeError")
    ELSE PopulateFrom(size, ship, g, 0)

\* Object.keys(validatedPlacementData).forEach(...): the ships one after
\* another, stopping at the first throw
RECURSIVE PopulateAll(_, _, _)
PopulateAll(data, g, k) ==
    IF k > Len(ShipOrder) THEN PopulateResult(g, "")
    ELSE LET shipType == ShipOrder[k]
             r == populateGridWithShipData(
                      getCellAreaWidthAndHeight(ShipSize[shipType]),
                      data[shipType], g)
         IN  IF r.threw # "" THEN r ELSE PopulateAll(data, r.grid, k + 1)

-----------------------------------------------------------------------------
(* Board validator: the consistency pass over the populated grid *)

\* row.length < GAME_GRID_SIZE in place of !==
RowShorterOnly(row) == Len(row) < GAME_GRID_SIZE

\* row.length !== GAME_GRID_SIZE
RowOverEdge(row) == Len(row) # GAME_GRID_SIZE

\* val >= 1 in place of val > 1
OverlappingFromOne(val) == val >= 1

\* val > 1 (false for NaN and undefined)
Overlapping(val) == val > 1

\* val !== 0 (true for NaN and undefined)
Occupied(val) == val # 0

\* [i, j] in place of [j, i]
OverlapAtRowFirst(j, i) == <<i, j>>

\* The coordinate the overlap error prints: [${j}, ${i}], column then row
OverlapAt(j, i) == <<j, i>>

ScanResult(kind, at, occupied) == [kind |-> kind, at |-> at, occupied |-> occupied]

\* The inner loop over j of one row, from column j on
RECURSIVE ScanRow(_, _, _, _)
ScanRow(row, i, j, occupied) ==
    IF j >= Len(row) THEN ScanResult("", <<>>, occupied)
    ELSE LET val == row[j + 1]
         IN  IF Overlapping(val) THEN ScanResult("Overlap", OverlapAt(j, i), occupied)
             ELSE ScanRow(row, i, j + 1,
                          IF Occupied(val) THEN occupied + 1 ELSE occupied)

\* The outer loop over i, from row i on
RECURSIVE ScanGrid(_, _, _)
ScanGrid(g, i, occupied) ==
    IF i >= Len(g) THEN ScanResult("", <<>>, occupied)
    ELSE LET row == g[i + 1]
         IN  IF RowOverEdge(row) THEN ScanResult("OverEdge", <<>>, occupied)
             ELSE LET r == ScanRow(row, i, 0, occupied)
                  IN  IF r.kind # "" THEN r ELSE ScanGrid(g, i + 1, r.occupied)

\* No value: what `returned` holds when the call threw
NoValue == [key \in {"none"} |-> [origin |-> <<>>, orientation |-> ""]]

\* The whole of validateShipPlacement(data) as one value:
\*   kind        "ok", or the error thrown: "SchemaError" (the Joi
\*               ValidationError), "TypeError" / "SizeError" (out of
\*               populateGridWithShipData), "OverEdge" ('a ship is over the
\*               edge of the board'), "Overlap" ('ships are overlapping at
\*               grid [j, i]'), "Mismatch" (occupied squares /= expected)
\*   violations  the details of the ValidationError
\*   grid        the grid when the call ended, <<>> if none was generated
\*   at          <<j, i>> of the overlap error
\*   value       the value returned
Validation(kind, errs, g, at, value) ==
    [kind |-> kind, violations |-> errs, grid |-> g, at |-> at, value |-> value]

validateShipPlacementResult(data) ==
    LET errors == ShipsLockedSchema(data)
    IN  IF errors # {}
        THEN Validation("SchemaError", errors, <<>>, <<>>, NoValue)
        ELSE LET p == PopulateAll(data, generateEmptyGridArray, 1)
             IN  IF p.threw # ""
                 THEN Validation(p.threw, {}, p.grid, <<>>, NoValue)
                 ELSE LET s == ScanGrid(p.grid, 0, 0)
                      IN  IF s.kind # ""
                          THEN Validation(s.kind, {}, p.grid, s.at, NoValue)
                          ELSE IF s.occupied # EXPECTED_OCCUPIED_SQUARES
                          THEN Validation("Mismatch", {}, p.grid, <<>>, NoValue)
                          ELSE Validation("ok", {}, p.grid, <<>>, data)

\* validateShipPlacement(placementData): the call, start to end
validateShipPlacement ==
    /\ pc = "submitted"
    /\ LET r == validateShipPlacementResult(placementData)
       IN  /\ outcome' = r.kind
           /\ violations' = r.violations
           /\ grid' = r.grid
           /\ overlapAt' = r.at
           /\ returned' = r.value
    /\ pc' = "done"
    /\ UNCHANGED <<placementData, outcomeVars, matchVars>>

-----------------------------------------------------------------------------
(* Board validator: the payloads a client may submit *)

Ship(x, y, orientation) == [origin |-> <<x, y>>, orientation |-> orientation]

\* A string that is neither of the two members of enum Orientation
Diagonal == "diagonal"

Coordinate == 0..(GAME_GRID_SIZE - 1)

\* Payloads with the three ship keys, integer origins on the board and a
\* non-empty string as orientation.  (Joi.number() also lets a fraction in
\* range pass; such an origin names no grid cell and is not drawn here.)
TypedPayloads ==
    [ShipType -> {Ship(x, y, o) : x \in Coordinate, y \in Coordinate,
                                  o \in {Horizontal, Vertical, Diagonal}}]

\* Two payloads that pass the schema, to derive malformed ones from
BasePayloads ==
    { [s \in ShipType |->
         CASE s = Battleship -> Ship(0, 0, Horizontal)
           [] s = Destroyer  -> Ship(0, 1, Horizontal)
           [] s = Submarine  -> Ship(0, 2, o)] : o \in {Horizontal, Diagonal} }

Restrict(f, S) == [k \in S |-> f[k]]

\* Payloads with one or two structural defects: a missing ship, an unknown
\* key, an origin of the wrong length, an origin off the declared range, an
\* empty orientation
MalformedShips(ship) ==
    {[ship EXCEPT !.origin = o] :
        o \in {<<ship.origin[1]>>, ship.origin \o <<0>>}
              \cup {<<x, ship.origin[2]>> : x \in {-1, GAME_GRID_SIZE}}
              \cup {<<ship.origin[1], y>> : y \in {-1, GAME_GRID_SIZE}}
              \cup {<<-1, GAME_GRID_SIZE>>}}
    \cup {[ship EXCEPT !.orientation = ""]}
    \cup {[origin |-> <<GAME_GRID_SIZE>>, orientation |-> ""]}

MalformedPayloads ==
    UNION { {Restrict(b, ShipType \ {s}) : s \in ShipType}
            \cup {[k \in ShipType \cup {"Carrier"} |->
                     IF k \in ShipType THEN b[k] ELSE Ship(0, 3, Vertical)]}
            \cup UNION {{[b EXCEPT ![s] = m] : m \in MalformedShips(b[s])}
                        : s \in ShipType}
            \cup {[k \in {Battleship, "Carrier"} |-> [b[Battleship] EXCEPT !.orientation = ""]]}
          : b \in BasePayloads }

\* Payloads of the kinds the validator's documentation singles out: a ship
\* reaching past the last row, a ship reaching past the last column while two
\* others overlap further down, an orientation outside the enum
ExamplePayloads ==
    { [s \in ShipType |->
         CASE s = Battleship -> Ship(0, GAME_GRID_SIZE - 2, Vertical)
           [] s = Destroyer  -> Ship(1, 0, Horizontal)
           [] s = Submarine  -> Ship(1, 1, Horizontal)],
      [s \in ShipType |->
         CASE s = Battleship -> Ship(GAME_GRID_SIZE - 2, 0, Horizontal)
           [] s = Destroyer  -> Ship(0, 1, Vertical)
           [] s = Submarine  -> Ship(0, 1, Horizontal)],
      [s \in ShipType |->
         CASE s = Battleship -> Ship(0, 0, Horizontal)
           [] s = Destroyer  -> Ship(0, 1, Horizontal)
           [] s = Submarine  -> Ship(0, 2, Diagonal)] }

Payloads == TypedPayloads \cup MalformedPayloads

-----------------------------------------------------------------------------
(* Outcome evaluator.  player.getShipPositionData() is either undefined or *)
(* an object whose values are the ships, each with its list of cells; a    *)
(* cell carries a hit flag.                                                *)

\* getShipPositionData() of a player that has not placed ships: undefined
NoShipPositions == [defined |-> FALSE, ships |-> <<>>]

\* getShipPositionData() of a player with the ships `ships` (Object.values order)
ShipPositions(ships) == [defined |-> TRUE, ships |-> ships]

\* A ship of the record with n cells, none hit
UnhitShip(type, n) == [type |-> type, cells |-> [i \in 1..n |-> [hit |-> FALSE]]]

\* Object.values(shipPositions).map((s) => s.cells)
MapCells(ships) == [k \in 1..Len(ships) |-> ships[k].cells]

\* .flat(): the lists of cells joined into one list
RECURSIVE Flat(_)
Flat(lists) == IF lists = <<>> THEN <<>> ELSE Head(lists) \o Flat(Tail(lists))

\* .some((c) => c.hit === true) in place of .every
SomeHit(cells) == \E i \in 1..Len(cells) : cells[i].hit = TRUE

\* .every((c) => c.hit === true)
EveryHit(cells) == \A i \in 1..Len(cells) : cells[i].hit = TRUE

\* The value isGameOverForPlayer returns for a player with these positions
isGameOverForPlayerResult(positions) ==
    IF ~positions.defined THEN FALSE
    ELSE EveryHit(Flat(MapCells(positions.ships)))

\* isGameOverForPlayer(player)
isGameOverForPlayer ==
    /\ lastGameOver' = isGameOverForPlayerResult(shipPositions)
    /\ queried' = TRUE
    /\ UNCHANGED <<shipPositions, boardVars, matchVars>>

\* The gameplay loop stores the validated placement as the player's ships:
\* every ship type with as many unhit cells as the ship is long
setShipPositionData ==
    /\ ~shipPositions.defined
    /\ shipPositions' = ShipPositions(
           [k \in 1..Len(ShipOrder) |->
               UnhitShip(ShipOrder[k],
                         getCellAreaWidthAndHeight(ShipSize[ShipOrder[k]]))])
    /\ queried' = FALSE
    /\ UNCHANGED <<lastGameOver, boardVars, matchVars>>

\* The gameplay loop marks cell i of ship k hit
recordHit(k, i) ==
    /\ shipPositions.defined
    /\ k \in 1..Len(shipPositions.ships)
    /\ i \in 1..Len(shipPositions.ships[k].cells)
    /\ ~shipPositions.ships[k].cells[i].hit
    /\ shipPositions' =
          [shipPositions EXCEPT !.ships[k].cells[i].hit = TRUE]
    /\ queried' = FALSE
    /\ UNCHANGED <<lastGameOver, boardVars, matchVars>>

-----------------------------------------------------------------------------
(* Match instance *)

\* The uuids of the players that may be handed to a match
PlayerUUIDs == {"uuid-1", "uuid-2", "uuid-3"}

\* What lastOpponent holds when getPlayerOpponentUUID threw
Threw == "Error: player is not associated with this match"

\* JavaScript truthiness of a string or undefined
Truthy(v) == v # Undefined /\ v # ""

\* The constructor: playerA, playerB?, ready = false
MatchFields(a, b, r) == [playerA |-> a, playerB |-> b, ready |-> r]

\* toJSON(), without the uuid of the match itself
toJSON == [ready |-> ready, playerA |-> playerA, playerB |-> playerB]

\* this.playerA = player.getUUID() in place of this.playerB = ...
AddPlayerIntoSlotA(a, b, r, uuid) ==
    MatchFields(uuid, b, IF Truthy(uuid) /\ Truthy(b) THEN TRUE ELSE r)

\* The fields after addPlayer(player), player.getUUID() = uuid
AddPlayerFields(a, b, r, uuid) ==
    MatchFields(a, uuid, IF Truthy(a) /\ Truthy(uuid) THEN TRUE ELSE r)

\* The branches returning the caller's own slot
OpponentSameSlot(a, b, uuid) ==
    IF uuid = a THEN a
    ELSE IF uuid = b THEN b
    ELSE Threw

\* What getPlayerOpponentUUID(player) returns, player.getUUID() = uuid
OpponentUUID(a, b, uuid) ==
    IF uuid = a THEN b
    ELSE IF uuid = b THEN a
    ELSE Threw

\* addPlayer(player)
addPlayer(uuid) ==
    /\ LET f == AddPlayerFields(playerA, playerB, ready, uuid)
       IN  /\ playerA' = f.playerA
           /\ playerB' = f.playerB
           /\ ready' = f.ready
    /\ lastCall' = "addPlayer"
    /\ lastArg' = uuid
    /\ UNCHANGED <<lastJoinable, lastOpponent, lastPlayers, boardVars, outcomeVars>>

\* isJoinable()
isJoinable ==
    /\ lastJoinable' = (playerB = Undefined)
    /\ lastCall' = "isJoinable"
    /\ lastArg' = Undefined
    /\ UNCHANGED <<playerA, playerB, ready, lastOpponent, lastPlayers,
                   boardVars, outcomeVars>>

\* getPlayers()
getPlayers ==
    /\ lastPlayers' = [playerA |-> playerA, playerB |-> playerB]
    /\ lastCall' = "getPlayers"
    /\ lastArg' = Undefined
    /\ UNCHANGED <<playerA, playerB, ready, lastJoinable, lastOpponent,
                   boardVars, outcomeVars>>

\* getPlayerOpponentUUID(player)
getPlayerOpponentUUID(uuid) ==
    /\ lastOpponent' = OpponentUUID(playerA, playerB, uuid)
    /\ lastCall' = "getPlayerOpponentUUID"
    /\ lastArg' = uuid
    /\ UNCHANGED <<playerA, playerB, ready, lastJoinable, lastPlayers,
                   boardVars, outcomeVars>>

\* MatchInstance.from(this.toJSON()): the match stored and loaded again
from ==
    /\ LET data == toJSON
           f == MatchFields(data.playerA, data.playerB, data.ready)
       IN  /\ playerA' = f.playerA
           /\ playerB' = f.playerB
           /\ ready' = f.ready
    /\ lastCall' = "from"
    /\ lastArg' = Undefined
    /\ UNCHANGED <<lastJoinable, lastOpponent, lastPlayers, boardVars, outcomeVars>>

-----------------------------------------------------------------------------
(* Initial values of each component *)

BoardIdle ==
    /\ placementData = NoValue
    /\ pc = "idle"
    /\ outcome = ""
    /\ violations = {}
    /\ grid = <<>>
    /\ overlapAt = <<>>
    /\ returned = NoValue

OutcomeIdle ==
    /\ shipPositions = NoShipPositions
    /\ queried = FALSE
    /\ lastGameOver = FALSE

MatchIdle ==
    /\ playerA = Undefined
    /\ playerB = Undefined
    /\ ready = FALSE
    /\ lastCall = ""
    /\ lastArg = Undefined
    /\ lastJoinable = FALSE
    /\ lastOpponent = Undefined
    /\ lastPlayers = [playerA |-> Undefined, playerB |-> Undefined]

\* A payload has arrived and validateShipPlacement is about to be called
InitBoard ==
    /\ \/ placementData \in ExamplePayloads
       \/ placementData \in Payloads
    /\ pc = "submitted"
    /\ outcome = ""
    /\ violations = {}
    /\ grid = <<>>
    /\ overlapAt = <<>>
    /\ returned = NoValue
    /\ OutcomeIdle
    /\ MatchIdle

NextBoard == validateShipPlacement

SpecBoard == InitBoard /\ [][NextBoard]_vars

\* The hit record of the player isGameOverForPlayer is first asked about:
\* none yet, or a record in which some or all ships have no cells, or which
\* has no ship at all (the ships of a stored placement come about through
\* setShipPositionData)
InitOutcome ==
    /\ shipPositions \in
          {NoShipPositions, ShipPositions(<<>>)}
          \cup {ShipPositions([k \in 1..Len(ShipOrder) |->
                   UnhitShip(ShipOrder[k],
                       IF ShipOrder[k] \in E THEN 0
                       ELSE getCellAreaWidthAndHeight(ShipSize[ShipOrder[k]]))])
                : E \in SUBSET ShipType \ {{}}}
    /\ queried = FALSE
    /\ lastGameOver = FALSE
    /\ BoardIdle
    /\ MatchIdle

NextOutcome ==
    \/ setShipPositionData
    \/ \E k \in 1..Len(ShipOrder), i \in 1..EXPECTED_OCCUPIED_SQUARES : recordHit(k, i)
    \/ isGameOverForPlayer

SpecOutcome == InitOutcome /\ [][NextOutcome]_vars

\* new MatchInstance(playerA) or new MatchInstance(playerA, playerB)
InitMatch ==
    /\ \E a \in PlayerUUIDs :
          \/ LET f == MatchFields(a, Undefined, FALSE)
             IN  playerA = f.playerA /\ playerB = f.playerB /\ ready = f.ready
          \/ \E b \in PlayerUUIDs :
                LET f == MatchFields(a, b, FALSE)
                IN  playerA = f.playerA /\ playerB = f.playerB /\ ready = f.ready
    /\ lastCall = "constructor"
    /\ lastArg = Undefined
    /\ lastJoinable = FALSE
    /\ lastOpponent = Undefined
    /\ lastPlayers = [playerA |-> Undefined, playerB |-> Undefined]
    /\ BoardIdle
    /\ OutcomeIdle

NextMatch ==
    \/ \E uuid \in PlayerUUIDs : addPlayer(uuid)
    \/ isJoinable
    \/ getPlayers
    \/ \E uuid \in PlayerUUIDs : getPlayerOpponentUUID(uuid)
    \/ from

SpecMatch == InitMatch /\ [][NextMatch]_vars

-----------------------------------------------------------------------------
(* Board validator: what the claims speak of, stated on the payload alone *)

\* The fixed length of each ship type
ShipLength == [s \in ShipType |->
                 CASE s = Battleship -> 4 [] s = Destroyer -> 3 [] s = Submarine -> 2]

TotalShipLength == ShipLength[Battleship] + ShipLength[Destroyer] + ShipLength[Submarine]

\* The cells <<column, row>> of a ship: the origin and the following cells in
\* the positive column direction when horizontal, in the positive row
\* direction otherwise
CellsOf(ship, length) ==
    IF ship.orientation = Horizontal
        THEN {<<ship.origin[1] + i, ship.origin[2]>> : i \in 0..(length - 1)}
        ELSE {<<ship.origin[1], ship.origin[2] + i>> : i \in 0..(length - 1)}

Board == Coordinate \X Coordinate

\* The payload has exactly the three ship keys, each with an origin of two
\* integers on the board
WellFormed(data) ==
    /\ DOMAIN data = ShipType
    /\ \A s \in ShipType :
          /\ Len(data[s].origin) = 2
          /\ data[s].origin[1] \in Coordinate
          /\ data[s].origin[2] \in Coordinate

EnumOrientations(data) ==
    \A s \in ShipType : data[s].orientation \in {Horizontal, Vertical}

ShipCells(data, s) == CellsOf(data[s], ShipLength[s])

AllOnBoard(data) == \A s \in ShipType : ShipCells(data, s) \subseteq Board

\* The cells that two different ships both occupy
SharedCells(data) ==
    UNION {ShipCells(data, st[1]) \cap ShipCells(data, st[2]) :
             st \in {p \in ShipType \X ShipType : p[1] # p[2]}}

\* Some ship of one of the two orientations has its origin on the board and a
\* cell past the last column or row
SomeShipOverEdge(data) ==
    \E s \in ShipType :
        /\ data[s].orientation \in {Horizontal, Vertical}
        /\ \E c \in ShipCells(data, s) :
              c[1] > GAME_GRID_SIZE - 1 \/ c[2] > GAME_GRID_SIZE - 1

Done == pc = "done"

\* C1: whenever validateShipPlacement returns normally, every cell of every
\* ship is on the board, no cell belongs to two ships, and the number of
\* occupied cells is the sum of the ship lengths.
C1_AcceptedIsSound ==
    (Done /\ outcome = "ok") =>
        /\ WellFormed(placementData)
        /\ AllOnBoard(placementData)
        /\ SharedCells(placementData) = {}
        /\ Cardinality(UNION {ShipCells(placementData, s) : s \in ShipType})
              = TotalShipLength

C1_Witness ==
    /\ Done /\ outcome = "ok"
    /\ placementData[Battleship].orientation = Vertical
    /\ placementData[Destroyer].orientation = Horizontal
    /\ placementData[Submarine].origin = <<GAME_GRID_SIZE - 1, GAME_GRID_SIZE - 2>>

\* C2: a payload with the three ships, in-range integer origins, horizontal
\* or vertical orientations, all ships on the board and no shared cell is
\* accepted, and what is returned is the payload, unchanged.
C2_ValidIsAccepted ==
    (/\ Done
     /\ WellFormed(placementData)
     /\ EnumOrientations(placementData)
     /\ AllOnBoard(placementData)
     /\ SharedCells(placementData) = {})
    => (outcome = "ok" /\ returned = placementData)

C2_Witness ==
    /\ Done /\ outcome = "ok" /\ returned = placementData
    /\ EnumOrientations(placementData)
    /\ placementData[Battleship] = Ship(0, 0, Vertical)
    /\ placementData[Destroyer] = Ship(1, GAME_GRID_SIZE - 1, Horizontal)

\* C3 (as claimed): a schema-valid payload with a ship of either orientation
\* whose origin is on the board but which reaches past the last column or row
\* fails with 'a ship is over the edge of the board' and with nothing else.
C3_OverEdgeIsReported ==
    (/\ Done
     /\ ShipsLockedSchema(placementData) = {}
     /\ SomeShipOverEdge(placementData))
    => outcome = "OverEdge"

\* C4 (as claimed): a schema-valid payload in which two ships share a cell
\* fails with the overlap error naming a shared cell, whatever else is wrong.
C4_OverlapAlwaysReported ==
    (/\ Done
     /\ ShipsLockedSchema(placementData) = {}
     /\ SharedCells(placementData) # {})
    => (outcome = "Overlap" /\ overlapAt \in SharedCells(placementData))

\* C4 (amended): a schema-valid payload in which two ships share a cell is
\* never accepted; when no ship reaches past the board edge it fails with the
\* overlap error; and whenever it fails with the overlap error the coordinate
\* named is a cell that at least two ships occupy.
C4_OverlapReportedOnBoard ==
    (/\ Done
     /\ ShipsLockedSchema(placementData) = {}
     /\ SharedCells(placementData) # {})
    => /\ outcome # "ok"
       /\ AllOnBoard(placementData) => outcome = "Overlap"
       /\ outcome = "Overlap" => overlapAt \in SharedCells(placementData)

C4_Witness ==
    /\ Done /\ outcome = "Overlap"
    /\ AllOnBoard(placementData)
    /\ Cardinality(SharedCells(placementData)) > 1
    /\ overlapAt \in SharedCells(placementData)
    /\ overlapAt[1] > 0 /\ overlapAt[2] > 0

\* C5 (as claimed): a payload in which some ship's orientation is neither
\* 'horizontal' nor 'vertical' is rejected by the schema pass, before any
\* grid is generated.
C5_BadOrientationIsSchemaError ==
    (/\ Done
     /\ \E s \in ShipType \cap DOMAIN placementData :
           placementData[s].orientation \notin {Horizontal, Vertical})
    => (outcome = "SchemaError" /\ grid = <<>>)

-----------------------------------------------------------------------------
(* Outcome evaluator: the claims *)

\* The record holds the three ships, each with as many cells as it is long
FixedLengthRecord(positions) ==
    /\ positions.defined
    /\ Len(positions.ships) = Len(ShipOrder)
    /\ \A k \in 1..Len(ShipOrder) :
          /\ positions.ships[k].type = ShipOrder[k]
          /\ Len(positions.ships[k].cells) = ShipLength[ShipOrder[k]]

\* Every cell of every ship of the record is marked hit
AllCellsHit(positions) ==
    \A k \in 1..Len(positions.ships) :
        \A i \in 1..Len(positions.ships[k].cells) :
            positions.ships[k].cells[i].hit

\* The number of cells of the record
RECURSIVE CountCells(_)
CountCells(ships) ==
    IF ships = <<>> THEN 0 ELSE Len(Head(ships).cells) + CountCells(Tail(ships))

\* C6: isGameOverForPlayer returns false when the hit record is absent; when
\* it holds the fixed-length ships it returns true exactly when every cell of
\* every ship is hit, whatever hits were recorded before.
C6_LostIffAllHit ==
    queried =>
        /\ ~shipPositions.defined => lastGameOver = FALSE
        /\ FixedLengthRecord(shipPositions) =>
              (lastGameOver = TRUE <=> AllCellsHit(shipPositions))

C6_Witness ==
    /\ queried
    /\ FixedLengthRecord(shipPositions)
    /\ AllCellsHit(shipPositions)
    /\ lastGameOver = TRUE

\* C7 (as claimed): isGameOverForPlayer returns false for a hit record that
\* is present but holds no cell at all.
C7_NoCellsIsNotLost ==
    (queried /\ shipPositions.defined /\ CountCells(shipPositions.ships) = 0)
        => lastGameOver = FALSE

-----------------------------------------------------------------------------
(* Match instance: the claims *)

BothPresent == playerA # Undefined /\ playerB # Undefined

\* The Ready state of the match: both slots filled and the flag set
Ready == BothPresent /\ ready

\* C8 (as claimed): in every state of a match, ready is true exactly when
\* both participant uuids are present.
C8_ReadyIffBothPresent == ready <=> BothPresent

Queries == {"isJoinable", "getPlayers", "getPlayerOpponentUUID"}

\* C9 (as claimed): over any sequence of calls, once both slots are filled no
\* call removes or replaces either uuid, ready never returns to false,
\* isJoinable once false is false at every later call, and the queries change
\* no state.
C9_Monotonic ==
    [][ /\ Ready => (playerA' = playerA /\ playerB' = playerB)
        /\ ready => ready'
        /\ (playerB # Undefined /\ lastCall' = "isJoinable") => lastJoinable' = FALSE
        /\ lastCall' \in Queries => UNCHANGED <<playerA, playerB, ready>>
      ]_vars

\* C9 (amended): over any sequence of calls, playerA never changes, a filled
\* slot is never emptied, ready never returns to false, isJoinable once false
\* is false at every later call, and the queries change no state; and once
\* both slots are filled neither uuid is replaced by any call other than an
\* addPlayer made while isJoinable() is false, that is, against its
\* precondition.
C9_MonotonicUnderPrecondition ==
    [][ /\ playerA' = playerA
        /\ playerB # Undefined => playerB' # Undefined
        /\ ready => ready'
        /\ (playerB # Undefined /\ lastCall' = "isJoinable") => lastJoinable' = FALSE
        /\ lastCall' \in Queries => UNCHANGED <<playerA, playerB, ready>>
        /\ (Ready /\ ~(lastCall' = "addPlayer" /\ playerB # Undefined))
              => (playerA' = playerA /\ playerB' = playerB)
      ]_vars

C9_Witness ==
    /\ Ready
    /\ lastCall = "isJoinable" /\ lastJoinable = FALSE
    /\ lastPlayers = [playerA |-> playerA, playerB |-> Undefined]

\* C10: on a match holding two participants, getPlayerOpponentUUID returns
\* playerB's uuid for playerA, playerA's uuid for playerB, and throws for a
\* uuid in neither slot; the call leaves both uuids and ready as they were.
C10_OpponentOf ==
    [][ (BothPresent /\ lastCall' = "getPlayerOpponentUUID") =>
           /\ lastArg' = playerA => lastOpponent' = playerB
           /\ lastArg' = playerB => lastOpponent' = playerA
           /\ lastArg' \notin {playerA, playerB} => lastOpponent' = Threw
           /\ lastOpponent' = Threw => lastArg' \notin {playerA, playerB}
           /\ UNCHANGED <<playerA, playerB, ready>>
      ]_vars

C10_Witness ==
    /\ BothPresent /\ playerA # playerB
    /\ lastCall = "getPlayerOpponentUUID"
    /\ lastArg = playerB
    /\ lastOpponent = playerA

=============================================================================
